---- MODULE Spec2Model ----
(***************************************************************************)
(* A model of hexeditor.py (class HexEditor): the byte buffer, the cursor  *)
(* and viewport, the screen geometry, the edit accumulator and the main    *)
(* loop's key handlers.  Every state of the model is the editor sitting in *)
(* stdscr.getch() at line 788, that is, just after setDataFields(),        *)
(* resize() and redraw() of lines 785-787 ran; every action is one pass    *)
(* through the body of the `while True` loop of mainLoop.                  *)
(***************************************************************************)
EXTENDS Integers, Sequences, FiniteSets, TLC

VARIABLES
    data_bytes,        \* self._data_bytes: sequence of byte values 0..255
    fileBytes,         \* the bytes of self._filename on disk
    cursorPos,         \* self._cursorPos
    firstDisplayLine,  \* self._firstDisplayLine
    editChars,         \* self._editChars: sequence of one-character strings
    modified,          \* self._modified
    inputArea,         \* self.inputArea: "data" or "text"
    dataFormat,        \* self.dataFormat
    recSize,           \* self.recSize, 0 standing for None
    termRows,          \* what stdscr.getmaxyx() answers: rows
    termCols,          \* what stdscr.getmaxyx() answers: columns
    params,            \* the attributes computeScreenParams stores
    status,            \* "running", "crashed" (uncaught exception), "exited"
    edits              \* number of byte writes made so far

vars == <<data_bytes, fileBytes, cursorPos, firstDisplayLine, editChars,
          modified, inputArea, dataFormat, recSize, termRows, termCols,
          params, status, edits>>

(***************************************************************************)
(* Bounds of the exploration.                                              *)
(***************************************************************************)
\* Byte writes explored in one session, and the longest buffer they are
\* explored on (longer files are navigated and searched, not written).
MaxEdits == 1
MaxEditLen == 1
\* Terminal heights and widths the window is resized among.
ScreenRowsSet == {5, 6}
ScreenColsSet == {40, 80}
\* Characters the user types in the data area, and in the text area (where
\* every printable character is written as its own code).
TypedChars == {"1", "9", "z"}
TextChars == {"z"}
\* Columns the user clicks on: the offset column and a column inside the
\* data area that is not the first of its row.
ClickCols == {0, 12}
\* The columns clicked in a geometry p: those, the separator column between
\* the data area and the text area, and the column right of the text area.
ClickColsOf(p) == ClickCols \cup {p.dataRightCol + 1, p.textRightCol + 1}

(***************************************************************************)
(* Python helpers.                                                         *)
(***************************************************************************)
Min(a, b) == IF a <= b THEN a ELSE b
Max(a, b) == IF a >= b THEN a ELSE b

\* s[a:b] of a Python sequence: negative indices count from the end, and
\* both ends are clamped to the sequence.
PySlice(s, a, b) ==
    LET n  == Len(s)
        lo == IF a < 0 THEN Max(a + n, 0) ELSE Min(a, n)
        hi == IF b < 0 THEN Max(b + n, 0) ELSE Min(b, n)
    IN  IF lo >= hi THEN <<>> ELSE SubSeq(s, lo + 1, hi)

\* s[a:]
PySliceFrom(s, a) ==
    LET n  == Len(s)
        lo == IF a < 0 THEN Max(a + n, 0) ELSE Min(a, n)
    IN  IF lo >= n THEN <<>> ELSE SubSeq(s, lo + 1, n)

(***************************************************************************)
(* The format tables of lines 28-47.                                       *)
(***************************************************************************)
DataFormats == {"hex", "decimal", "octal", "binary"}

\* (column sections, bytes in a section, characters per byte)
byteDisplayFormatMap ==
    [hex     |-> <<2, 8, 2>>,
     decimal |-> <<2, 5, 3>>,
     octal   |-> <<3, 4, 3>>,
     binary  |-> <<4, 1, 8>>]

DecimalDigits == {"0", "1", "2", "3", "4", "5", "6", "7", "8", "9"}
HexLetters == {"a", "b", "c", "d", "e", "f", "A", "B", "C", "D", "E", "F"}

validInputChars ==
    [hex     |-> DecimalDigits \cup HexLetters,
     decimal |-> DecimalDigits,
     octal   |-> {"0", "1", "2", "3", "4", "5", "6", "7"},
     binary  |-> {"0", "1"}]

numberBases == [hex |-> 16, decimal |-> 10, octal |-> 8, binary |-> 2]

\* The characters of the literal '0123456789abcdefABCDEF' of line 804.
EditKeyChars == DecimalDigits \cup HexLetters

\* Number of rows of auxiliary fields: len(self.complexDataInstanceRows).
AuxRowCount == 2

\* computeScreenParams without the separator columns between the sections of
\* the data area (line 391).
computeScreenParams_noGroupGaps(rows, cols, fmt, rec) ==
    LET fm           == byteDisplayFormatMap[fmt]
        sectionBytes == fm[2]
        colByteCount == fm[3]
        rowByteCount == IF rec # 0 THEN rec ELSE fm[1] * sectionBytes
        visible      == IF rec # 0
                        THEN (cols - 8) \div
                             (sectionBytes * colByteCount + sectionBytes + 2)
                        ELSE fm[1]
        sectionCount == IF rec # 0 THEN rowByteCount \div sectionBytes ELSE fm[1]
        partial      == IF rec # 0 THEN rowByteCount % sectionBytes ELSE 0
        dataWidth    == visible * sectionBytes * colByteCount
        dataLeft     == 8 + 1
        dataRight    == dataLeft + dataWidth - 1
        statusRow    == rows - 1
        dataLast     == statusRow - AuxRowCount - 2
        textWidth    == visible * sectionBytes + sectionCount - 1
        textLeft     == dataRight + 2
    IN  [screenRows              |-> rows,
         screenCols              |-> cols,
         offsetWidth             |-> 8,
         dataSectionCount        |-> sectionCount,
         dataSectionBytes        |-> sectionBytes,
         dataColByteCount        |-> colByteCount,
         rowByteCount            |-> rowByteCount,
         visibleDataSectionCount |-> visible,
         partialSection          |-> partial,
         dataSectionWidth        |-> dataWidth,
         dataLeftCol             |-> dataLeft,
         dataRightCol            |-> dataRight,
         dataFirstRow            |-> 0,
         statusRow               |-> statusRow,
         dataLastRow             |-> dataLast,
         dataRowCount            |-> dataLast + 1 - 0,
         textSectionWidth        |-> textWidth,
         textLeftCol             |-> textLeft,
         textRightCol            |-> textLeft + textWidth - 1]

(***************************************************************************)
(* computeScreenParams, lines 365-402.                                     *)
(***************************************************************************)
computeScreenParams(rows, cols, fmt, rec) ==
    LET fm           == byteDisplayFormatMap[fmt]
        sectionBytes == fm[2]
        colByteCount == fm[3]
        rowByteCount == IF rec # 0 THEN rec ELSE fm[1] * sectionBytes
        visible      == IF rec # 0
                        THEN (cols - 8) \div
                             (sectionBytes * colByteCount + sectionBytes + 2)
                        ELSE fm[1]
        sectionCount == IF rec # 0 THEN rowByteCount \div sectionBytes ELSE fm[1]
        partial      == IF rec # 0 THEN rowByteCount % sectionBytes ELSE 0
        dataWidth    == visible * sectionBytes * colByteCount + sectionCount - 1
        dataLeft     == 8 + 1
        dataRight    == dataLeft + dataWidth - 1
        statusRow    == rows - 1
        dataLast     == statusRow - AuxRowCount - 2
        textWidth    == visible * sectionBytes + sectionCount - 1
        textLeft     == dataRight + 2
    IN  [screenRows              |-> rows,
         screenCols              |-> cols,
         offsetWidth             |-> 8,
         dataSectionCount        |-> sectionCount,
         dataSectionBytes        |-> sectionBytes,
         dataColByteCount        |-> colByteCount,
         rowByteCount            |-> rowByteCount,
         visibleDataSectionCount |-> visible,
         partialSection          |-> partial,
         dataSectionWidth        |-> dataWidth,
         dataLeftCol             |-> dataLeft,
         dataRightCol            |-> dataRight,
         dataFirstRow            |-> 0,
         statusRow               |-> statusRow,
         dataLastRow             |-> dataLast,
         dataRowCount            |-> dataLast + 1 - 0,
         textSectionWidth        |-> textWidth,
         textLeftCol             |-> textLeft,
         textRightCol            |-> textLeft + textWidth - 1]

\* moveCursor without line 726, the clamp of the first line to the last page.
moveCursor_noEofClamp(cp, fdl, n, p, byteCount, normalize) ==
    LET c1   == cp + byteCount
        c2   == IF byteCount >= 0 THEN Min(n - 1, c1) ELSE c1
        c3   == IF byteCount <= 0 THEN Max(0, c2) ELSE c2
        cursorLine          == c3 \div p.rowByteCount
        eofFirstDisplayLine == Max(n \div p.rowByteCount - p.dataRowCount + 1, 0)
        lastDisplayLine     == fdl + p.dataRowCount - 1
        f1   == IF cursorLine < fdl THEN cursorLine
                ELSE IF cursorLine > lastDisplayLine
                     THEN IF normalize THEN cursorLine
                          ELSE fdl + (cursorLine - lastDisplayLine)
                     ELSE fdl
        f2   == Max(f1, 0)
        f3   == Min(f2, eofFirstDisplayLine)
    IN  [cursorPos |-> c3, firstDisplayLine |-> f2]

(***************************************************************************)
(* moveCursor, lines 700-726: the new cursor position and first display    *)
(* line for a cursor cp and first line fdl over a buffer of n bytes.       *)
(***************************************************************************)
moveCursor(cp, fdl, n, p, byteCount, normalize) ==
    LET c1   == cp + byteCount
        c2   == IF byteCount >= 0 THEN Min(n - 1, c1) ELSE c1
        c3   == IF byteCount <= 0 THEN Max(0, c2) ELSE c2
        cursorLine          == c3 \div p.rowByteCount
        eofFirstDisplayLine == Max(n \div p.rowByteCount - p.dataRowCount + 1, 0)
        lastDisplayLine     == fdl + p.dataRowCount - 1
        f1   == IF cursorLine < fdl THEN cursorLine
                ELSE IF cursorLine > lastDisplayLine
                     THEN IF normalize THEN cursorLine
                          ELSE fdl + (cursorLine - lastDisplayLine)
                     ELSE fdl
        f2   == Max(f1, 0)
        f3   == Min(f2, eofFirstDisplayLine)
    IN  [cursorPos |-> c3, firstDisplayLine |-> f3]

(***************************************************************************)
(* convertScreenPosToCursorPos, lines 448-482.  NoPos stands for None and  *)
(* NeverHappens for the failed assertion of line 481.                      *)
(***************************************************************************)
NoPos == -1000
NeverHappens == -2000

\* findByteOffset without the column of line 479 between two sections.
RECURSIVE findByteOffsetFrom_noSectionGap(_, _, _, _, _, _, _)
findByteOffsetFrom_noSectionGap(p, x, displayColsPerByte, dataSection, sectionByteCounter, columnPtr, byteOffsetPtr) ==
    IF dataSection >= p.dataSectionCount THEN NeverHappens
    ELSE IF sectionByteCounter >= p.dataSectionBytes
         THEN findByteOffsetFrom_noSectionGap(p, x, displayColsPerByte,
                                              dataSection + 1, 0, columnPtr,
                                              byteOffsetPtr)
         ELSE IF columnPtr + displayColsPerByte > x THEN byteOffsetPtr
              ELSE findByteOffsetFrom_noSectionGap(p, x, displayColsPerByte,
                                      dataSection, sectionByteCounter + 1,
                                      columnPtr + displayColsPerByte,
                                      byteOffsetPtr + 1)

RECURSIVE findByteOffsetFrom(_, _, _, _, _, _, _)
findByteOffsetFrom(p, x, displayColsPerByte, dataSection, sectionByteCounter, columnPtr, byteOffsetPtr) ==
    IF dataSection >= p.dataSectionCount THEN NeverHappens
    ELSE IF sectionByteCounter >= p.dataSectionBytes
         THEN findByteOffsetFrom(p, x, displayColsPerByte, dataSection + 1, 0,
                                 columnPtr + 1, byteOffsetPtr)
         ELSE IF columnPtr + displayColsPerByte > x THEN byteOffsetPtr
              ELSE findByteOffsetFrom(p, x, displayColsPerByte, dataSection,
                                      sectionByteCounter + 1,
                                      columnPtr + displayColsPerByte,
                                      byteOffsetPtr + 1)

\* The inner function of lines 470-481, started at columnPtr.
findByteOffset(p, x, displayColsPerByte, columnPtr) ==
    findByteOffsetFrom(p, x, displayColsPerByte, 0, 0, columnPtr, 0)

\* convertScreenPosToCursorPos without the row test of lines 453-456.
convertScreenPosToCursorPos_noRowTest(p, fdl, y, x) ==
    LET yComponent == p.rowByteCount * (y - p.dataFirstRow + fdl)
        inData == p.dataLeftCol <= x /\ x <= p.dataRightCol
        inText == p.textLeftCol <= x /\ x <= p.textRightCol
        off    == IF inData
                  THEN findByteOffset(p, x, p.dataColByteCount, p.dataLeftCol)
                  ELSE findByteOffset(p, x, 1, p.textLeftCol)
    IN  IF ~inData /\ ~inText THEN NoPos
        ELSE IF off = NeverHappens THEN NeverHappens
        ELSE yComponent + off

convertScreenPosToCursorPos(p, fdl, y, x) ==
    IF ~(p.dataFirstRow <= y /\ y <= p.dataLastRow) THEN NoPos
    ELSE LET yComponent == p.rowByteCount * (y - p.dataFirstRow + fdl)
             inData == p.dataLeftCol <= x /\ x <= p.dataRightCol
             inText == p.textLeftCol <= x /\ x <= p.textRightCol
             off    == IF inData
                       THEN findByteOffset(p, x, p.dataColByteCount, p.dataLeftCol)
                       ELSE findByteOffset(p, x, 1, p.textLeftCol)
         IN  IF ~inData /\ ~inText THEN NoPos
             ELSE IF off = NeverHappens THEN NeverHappens
             ELSE yComponent + off

\* dataDisplayCursorPos without the separator columns of line 444.
dataDisplayCursorPos_noSeparators(p, fdl, o) ==
    LET cursorLine == o \div p.rowByteCount
        rowBytePos == o % p.rowByteCount
    IN  <<cursorLine - fdl + p.dataFirstRow,
          p.dataLeftCol + p.dataColByteCount * rowBytePos>>

\* dataDisplayCursorPos (lines 430-446) and textDisplayCursorPos (lines
\* 412-428) for a cursor at byte o: <<yPos, xPos>>.  The two assertions are
\* the caller's obligation (o's line is on-screen).
dataDisplayCursorPos(p, fdl, o) ==
    LET cursorLine == o \div p.rowByteCount
        rowBytePos == o % p.rowByteCount
    IN  <<cursorLine - fdl + p.dataFirstRow,
          p.dataLeftCol + p.dataColByteCount * rowBytePos
              + rowBytePos \div p.dataSectionBytes>>

textDisplayCursorPos(p, fdl, o) ==
    LET cursorLine == o \div p.rowByteCount
        rowBytePos == o % p.rowByteCount
    IN  <<cursorLine - fdl + p.dataFirstRow,
          p.textLeftCol + rowBytePos + rowBytePos \div p.dataSectionBytes>>

isInRectangle(point, ulPoint, lrPoint) ==
    /\ ulPoint[1] <= point[1] /\ point[1] <= lrPoint[1]
    /\ ulPoint[2] <= point[2] /\ point[2] <= lrPoint[2]

(***************************************************************************)
(* setDataFields, lines 404-410: each auxiliary field unpacks byte_count   *)
(* bytes at the cursor when cursorPos + byte_count <= len (lines 98-100,   *)
(* 169-171); struct.unpack raises when the slice is shorter than that.     *)
(***************************************************************************)
FieldByteCounts == {1, 2, 4}

setDataFieldsOk(cp, db) ==
    \A bc \in FieldByteCounts :
        cp + bc <= Len(db) => Len(PySlice(db, cp, cp + bc)) = bc

(***************************************************************************)
(* The edit branches of mainLoop, lines 804-830.                           *)
(***************************************************************************)
digitValue(c) ==
    CASE c = "0" -> 0 [] c = "1" -> 1 [] c = "2" -> 2 [] c = "3" -> 3
      [] c = "4" -> 4 [] c = "5" -> 5 [] c = "6" -> 6 [] c = "7" -> 7
      [] c = "8" -> 8 [] c = "9" -> 9
      [] c \in {"a", "A"} -> 10 [] c \in {"b", "B"} -> 11
      [] c \in {"c", "C"} -> 12 [] c \in {"d", "D"} -> 13
      [] c \in {"e", "E"} -> 14 [] c \in {"f", "F"} -> 15

\* int(s, base) for a string of digits that are legal in that base.
RECURSIVE pyInt(_, _)
pyInt(s, base) ==
    IF s = <<>> THEN 0
    ELSE pyInt(SubSeq(s, 1, Len(s) - 1), base) * base + digitValue(s[Len(s)])

\* ord() of the typed characters.
ord(c) ==
    CASE c = "1" -> 49 [] c = "9" -> 57 [] c = "f" -> 102 [] c = "z" -> 122

\* self._data_bytes[:cp] + chr(b) + self._data_bytes[cp+1:], lines 817, 825.
replaceByte(db, cp, b) == PySlice(db, 0, cp) \o <<b>> \o PySliceFrom(db, cp + 1)

\* editData without the range check of line 814: the low byte is written.
editData_noRangeCheck(db, cp, fdl, ec, md, p, fmt, key) ==
    LET charsPerByte == byteDisplayFormatMap[fmt][3]
        ec1          == Append(ec, key)
        updateByte   == pyInt(ec1, numberBases[fmt]) % 256
        db1          == replaceByte(db, cp, updateByte)
        m            == moveCursor(cp, fdl, Len(db1), p, 1, FALSE)
        same         == [data_bytes |-> db, cursorPos |-> cp,
                         firstDisplayLine |-> fdl, editChars |-> ec,
                         modified |-> md, wrote |-> FALSE]
    IN  IF key \notin validInputChars[fmt] THEN same
        ELSE IF Len(ec1) # charsPerByte THEN [same EXCEPT !.editChars = ec1]
        ELSE [data_bytes |-> db1, cursorPos |-> m.cursorPos,
              firstDisplayLine |-> m.firstDisplayLine, editChars |-> <<>>,
              modified |-> TRUE, wrote |-> TRUE]

\* editData without the reset of line 821 after a commit.
editData_keepOnCommit(db, cp, fdl, ec, md, p, fmt, key) ==
    LET charsPerByte == byteDisplayFormatMap[fmt][3]
        ec1          == Append(ec, key)
        updateByte   == pyInt(ec1, numberBases[fmt])
        db1          == replaceByte(db, cp, updateByte)
        m            == moveCursor(cp, fdl, Len(db1), p, 1, FALSE)
        same         == [data_bytes |-> db, cursorPos |-> cp,
                         firstDisplayLine |-> fdl, editChars |-> ec,
                         modified |-> md, wrote |-> FALSE]
    IN  IF key \notin validInputChars[fmt] THEN same
        ELSE IF Len(ec1) # charsPerByte THEN [same EXCEPT !.editChars = ec1]
        ELSE IF updateByte < 256
             THEN [data_bytes |-> db1, cursorPos |-> m.cursorPos,
                   firstDisplayLine |-> m.firstDisplayLine, editChars |-> ec1,
                   modified |-> TRUE, wrote |-> TRUE]
             ELSE [same EXCEPT !.editChars = <<>>]

\* Lines 810-821 for a key of '0123456789abcdefABCDEF' typed in the data area.
editData(db, cp, fdl, ec, md, p, fmt, key) ==
    LET charsPerByte == byteDisplayFormatMap[fmt][3]
        ec1          == Append(ec, key)
        updateByte   == pyInt(ec1, numberBases[fmt])
        db1          == replaceByte(db, cp, updateByte)
        m            == moveCursor(cp, fdl, Len(db1), p, 1, FALSE)
        same         == [data_bytes |-> db, cursorPos |-> cp,
                         firstDisplayLine |-> fdl, editChars |-> ec,
                         modified |-> md, wrote |-> FALSE]
    IN  IF key \notin validInputChars[fmt] THEN same
        ELSE IF Len(ec1) # charsPerByte THEN [same EXCEPT !.editChars = ec1]
        ELSE IF updateByte < 256
             THEN [data_bytes |-> db1, cursorPos |-> m.cursorPos,
                   firstDisplayLine |-> m.firstDisplayLine, editChars |-> <<>>,
                   modified |-> TRUE, wrote |-> TRUE]
             ELSE [same EXCEPT !.editChars = <<>>]

\* Lines 823-827 for a character 32..127 typed in the text area (the ascii
\* codec encodes such a character as its own code).
editText(db, cp, fdl, p, key) ==
    LET db1 == replaceByte(db, cp, ord(key))
        m   == moveCursor(cp, fdl, Len(db1), p, 1, FALSE)
    IN  [data_bytes |-> db1, cursorPos |-> m.cursorPos,
         firstDisplayLine |-> m.firstDisplayLine]

(***************************************************************************)
(* str.find and str.rfind, as used by lines 1236 and 1238.                 *)
(***************************************************************************)
\* sub occurs in s at the 0-based index i.
occursAt(s, sub, i) ==
    /\ i >= 0
    /\ i + Len(sub) <= Len(s)
    /\ \A j \in 1..Len(sub) : s[i + j] = sub[j]

\* A slice index as Python adjusts it to a sequence of n items.
adjustIndex(i, n) == IF i < 0 THEN Max(i + n, 0) ELSE Min(i, n)

\* s.find(sub, start)
pyFind(s, sub, start) ==
    LET n    == Len(s)
        lo   == IF start < 0 THEN Max(start + n, 0) ELSE start
        hits == {i \in lo..(n - Len(sub)) : occursAt(s, sub, i)}
    IN  IF hits = {} THEN -1 ELSE CHOOSE i \in hits : \A k \in hits : i <= k

\* s.rfind(sub, start, end)
pyRFind(s, sub, start, end) ==
    LET n    == Len(s)
        lo   == IF start < 0 THEN Max(start + n, 0) ELSE start
        hi   == adjustIndex(end, n)
        hits == {i \in lo..(hi - Len(sub)) : occursAt(s, sub, i)}
    IN  IF hits = {} THEN -1 ELSE CHOOSE i \in hits : \A k \in hits : i >= k

\* The search with the forward scan started at the cursor itself.
searchIndex_forwardFromCursor(db, cp, bytesStr, direction) ==
    IF direction = "forward" THEN pyFind(db, bytesStr, cp)
    ELSE pyRFind(db, bytesStr, 0, cp + Len(bytesStr) - 1)

\* The search with the backward scan ended at the cursor: a match may not
\* reach the byte under the cursor.
searchIndex_backwardEndsAtCursor(db, cp, bytesStr, direction) ==
    IF direction = "forward" THEN pyFind(db, bytesStr, cp + 1)
    ELSE pyRFind(db, bytesStr, 0, cp)

\* Lines 1235-1238: the index the search computes.
searchIndex(db, cp, bytesStr, direction) ==
    IF direction = "forward" THEN pyFind(db, bytesStr, cp + 1)
    ELSE pyRFind(db, bytesStr, 0, cp + Len(bytesStr) - 1)

(***************************************************************************)
(* showNavigateToOffset, lines 971-1014: the cursor position it leaves,    *)
(* for what the user submitted.  A submission is cancelled (empty or not a *)
(* number), absolute, or relative with a sign and the number that follows  *)
(* the sign (which int() may itself parse as negative).                    *)
(***************************************************************************)
showNavigateToOffset(cp, n, sub) ==
    IF sub.kind = "cancel" THEN cp
    ELSE IF sub.kind = "relative"
         THEN IF sub.relativeDirection > 0 THEN Min(n - 1, cp + sub.offset)
              ELSE Max(0, cp - sub.offset)
         ELSE Min(n - 1, sub.offset)

(***************************************************************************)
(* The state after construction and the first pass of lines 785-787.       *)
(***************************************************************************)
\* b"ABCXYZABC"
ABCXYZABC == <<65, 66, 67, 88, 89, 90, 65, 66, 67>>

\* b"ABCXYZABCXYZA": four rows of the binary format.
ABCXYZABCXYZA == ABCXYZABC \o <<88, 89, 90, 65>>

\* The files the editor is started on.
InitialBuffers == {<<>>, <<65, 66>>, ABCXYZABC, ABCXYZABCXYZA}

\* The loop top without the assertion of resize() (lines 487-488).
loopTop_noWidthCheck(cp, db, rows, cols, fmt, rec, pH) ==
    LET p == computeScreenParams(rows, cols, fmt, rec)
    IN  IF ~setDataFieldsOk(cp, db) THEN <<pH, "crashed">>
        ELSE <<p, "running">>

\* What lines 785-786 leave: <<params, status>>, given the geometry pH that
\* the handler left behind.
loopTop(cp, db, rows, cols, fmt, rec, pH) ==
    LET p == computeScreenParams(rows, cols, fmt, rec)
    IN  IF ~setDataFieldsOk(cp, db) THEN <<pH, "crashed">>
        ELSE IF cols > p.textRightCol THEN <<p, "running">>
        ELSE <<p, "crashed">>

Init ==
    /\ data_bytes \in InitialBuffers
    /\ fileBytes = data_bytes
    /\ cursorPos = 0
    /\ firstDisplayLine = 0
    /\ editChars = <<>>
    /\ modified = FALSE
    /\ inputArea = "data"
    /\ dataFormat \in DataFormats
    /\ recSize = 0
    /\ termRows \in ScreenRowsSet
    /\ termCols \in ScreenColsSet
    /\ LET t == loopTop(cursorPos, data_bytes, termRows, termCols, dataFormat,
                        recSize, computeScreenParams(termRows, termCols,
                                                     dataFormat, recSize))
       IN  params = t[1] /\ status = t[2]
    /\ edits = 0

(***************************************************************************)
(* One pass of the loop: the handler leaves db, cp, fdl, ec, md, ia, fmt   *)
(* and the geometry pH; then lines 785-787 run.                            *)
(***************************************************************************)
Pass(db, cp, fdl, ec, md, ia, fmt, pH) ==
    /\ data_bytes' = db
    /\ cursorPos' = cp
    /\ firstDisplayLine' = fdl
    /\ editChars' = ec
    /\ modified' = md
    /\ inputArea' = ia
    /\ dataFormat' = fmt
    /\ recSize' = recSize
    /\ LET t == loopTop(cp, db, termRows', termCols', fmt, recSize, pH)
       IN  params' = t[1] /\ status' = t[2]

\* A pass whose handler only moves the cursor (and empties the accumulator,
\* line 832).
MovePass(m) ==
    /\ UNCHANGED <<fileBytes, termRows, termCols, edits>>
    /\ Pass(data_bytes, m.cursorPos, m.firstDisplayLine, <<>>, modified,
            inputArea, dataFormat, params)

N == Len(data_bytes)

\* The write budget of the exploration.
CanWrite == edits < MaxEdits /\ Len(data_bytes) <= MaxEditLen

(***************************************************************************)
(* Editing keys, lines 804-830.                                            *)
(***************************************************************************)
\* A key of '0123456789abcdefABCDEF' in the data area.
KeyData(key) ==
    /\ status = "running"
    /\ inputArea = "data"
    /\ key \in EditKeyChars
    /\ LET r == editData(data_bytes, cursorPos, firstDisplayLine, editChars,
                         modified, params, dataFormat, key)
       IN  /\ r.wrote => CanWrite
           /\ edits' = IF r.wrote THEN edits + 1 ELSE edits
           /\ UNCHANGED <<fileBytes, termRows, termCols>>
           /\ Pass(r.data_bytes, r.cursorPos, r.firstDisplayLine,
                   r.editChars, r.modified, inputArea, dataFormat, params)

\* A character 32..127 in the text area.
KeyText(key) ==
    /\ status = "running"
    /\ inputArea = "text"
    /\ CanWrite
    /\ LET r == editText(data_bytes, cursorPos, firstDisplayLine, params, key)
       IN  /\ edits' = edits + 1
           /\ UNCHANGED <<fileBytes, termRows, termCols>>
           /\ Pass(r.data_bytes, r.cursorPos, r.firstDisplayLine,
                   editChars, TRUE, inputArea, dataFormat, params)

(***************************************************************************)
(* The else branch, lines 831-920.                                         *)
(***************************************************************************)
\* A pass that reaches the else branch and changes nothing but the
\* accumulator: a printable character outside '0123456789abcdefABCDEF' in
\* the data area, or F1 (help).
KeyNoEffect(key) ==
    /\ status = "running"
    /\ \/ key = "KEY_F(1)"
       \/ inputArea = "data" /\ key \in TypedChars \ EditKeyChars
    /\ MovePass([cursorPos |-> cursorPos,
                      firstDisplayLine |-> firstDisplayLine])

\* KEY_RESIZE with the terminal now rows x cols, lines 833-834.
\* KEY_RESIZE with no computeScreenParams, neither in the handler (line
\* 834) nor at the loop top (line 786): the geometry of the old size stays.
KeyResize_staleGeometry(rows, cols) ==
    /\ status = "running"
    /\ termRows' = rows
    /\ termCols' = cols
    /\ editChars' = <<>>
    /\ UNCHANGED <<data_bytes, fileBytes, cursorPos, firstDisplayLine,
                   modified, inputArea, dataFormat, recSize, params, status,
                   edits>>

KeyResize(rows, cols) ==
    /\ status = "running"
    /\ termRows' = rows
    /\ termCols' = cols
    /\ UNCHANGED <<fileBytes, edits>>
    /\ Pass(data_bytes, cursorPos, firstDisplayLine, <<>>,
            modified, inputArea, dataFormat,
            computeScreenParams(rows, cols, dataFormat, recSize))

\* KEY_NPAGE without line 837, the shift of the first line by a page.
KeyNPage_noViewportShift ==
    /\ status = "running"
    /\ MovePass(moveCursor(cursorPos, firstDisplayLine, N, params,
                           params.rowByteCount * params.dataRowCount, FALSE))

\* Lines 835-838.
KeyNPage ==
    /\ status = "running"
    /\ MovePass(moveCursor(cursorPos, firstDisplayLine + params.dataRowCount, N,
                           params, params.rowByteCount * params.dataRowCount,
                           FALSE))

\* Page Up without the viewport shift of line 841.
KeyPPage_noViewportShift ==
    /\ status = "running"
    /\ MovePass(moveCursor(cursorPos, firstDisplayLine, N, params,
                           -(params.rowByteCount * params.dataRowCount),
                           FALSE))

\* Lines 839-842.
KeyPPage ==
    /\ status = "running"
    /\ MovePass(moveCursor(cursorPos, firstDisplayLine - params.dataRowCount, N,
                           params, -(params.rowByteCount * params.dataRowCount),
                           FALSE))

\* Lines 843-850.
KeyArrow(key) ==
    /\ status = "running"
    /\ key \in {"KEY_DOWN", "KEY_UP", "KEY_RIGHT", "KEY_LEFT"}
    /\ LET byteCount == CASE key = "KEY_DOWN"  -> params.rowByteCount
                          [] key = "KEY_UP"    -> -params.rowByteCount
                          [] key = "KEY_RIGHT" -> 1
                          [] key = "KEY_LEFT"  -> -1
       IN  MovePass(moveCursor(cursorPos, firstDisplayLine, N, params,
                                    byteCount, FALSE))

\* Lines 857-860.
KeyHome ==
    /\ status = "running"
    /\ MovePass(moveCursor(0, firstDisplayLine, N, params, 0, FALSE))

\* Lines 861-863.
KeyEnd ==
    /\ status = "running"
    /\ MovePass(moveCursor(N - 1, firstDisplayLine, N, params, 0, FALSE))

\* Tab and back-tab, lines 864-869.
KeyTab ==
    /\ status = "running"
    /\ UNCHANGED <<fileBytes, termRows, termCols, edits>>
    /\ Pass(data_bytes, cursorPos, firstDisplayLine, <<>>, modified,
            IF inputArea = "text" THEN "data" ELSE "text", dataFormat, params)

\* What the user submits to the goto box.
GotoSubmissions ==
    {[kind |-> "cancel"]}
    \cup {[kind |-> "absolute", offset |-> o] : o \in {5, 100}}
    \cup {[kind |-> "relative", relativeDirection |-> d, offset |-> o] :
            d \in {1, -1}, o \in {-5, 3}}

\* ^G without the call of moveCursor that follows the dialog (line 874).
KeyGoto_noMoveAfterDialog(sub) ==
    /\ status = "running"
    /\ MovePass([cursorPos |-> showNavigateToOffset(cursorPos, N, sub),
                 firstDisplayLine |-> firstDisplayLine])

\* ^G, lines 870-874.
KeyGoto(sub) ==
    /\ status = "running"
    /\ MovePass(moveCursor(showNavigateToOffset(cursorPos, N, sub),
                           firstDisplayLine, N, params, 0, TRUE))

\* The byte patterns the user searches for, and the directions.
SearchPatterns == {<<>>, <<65, 66, 67>>, <<90>>}
SearchDirections == {"forward", "backward"}

(***************************************************************************)
(* The data-format branch of the ^J handler of the search dialog, lines    *)
(* 1195-1211.  A search string is a sequence of characters.                *)
(***************************************************************************)
ValueError == -3000

isDigitOf(c, base) ==
    c \in DecimalDigits \cup HexLetters /\ digitValue(c) < base

\* The prefix int() skips after the sign: 0x with base 16, 0o with base 8,
\* 0b with base 2.
basePrefixLen(s, base) ==
    IF Len(s) >= 2 /\ s[1] = "0"
       /\ \/ base = 16 /\ s[2] \in {"x", "X"}
          \/ base = 8 /\ s[2] \in {"o", "O"}
          \/ base = 2 /\ s[2] \in {"b", "B"}
    THEN 2 ELSE 0

\* int(s, base) of line 1208 for a string without blanks: an optional sign,
\* an optional prefix of the base, then one digit or more; ValueError
\* otherwise.
intOfString(s, base) ==
    LET signed   == Len(s) >= 1 /\ s[1] \in {"+", "-"}
        unsigned == IF signed THEN SubSeq(s, 2, Len(s)) ELSE s
        digits   == SubSeq(unsigned, basePrefixLen(unsigned, base) + 1, Len(unsigned))
    IN  IF digits = <<>> \/ \E i \in 1..Len(digits) : ~isDigitOf(digits[i], base)
        THEN ValueError
        ELSE IF signed /\ s[1] = "-" THEN 0 - pyInt(digits, base)
             ELSE pyInt(digits, base)

\* The bytes searched for, or NoBytes when the handler continues without
\* searching (lines 1201-1203 and 1209-1211; chr() raises ValueError
\* outside 0..255).
NoBytes == <<ValueError>>

dataSearchBytes(fmt, searchStr) ==
    LET dataColByteCount == byteDisplayFormatMap[fmt][3]
        workingStr == SelectSeq(searchStr, LAMBDA c : c # " ")
        byteCount  == Len(workingStr) \div dataColByteCount
        chunk(k)   == SubSeq(workingStr, (k - 1) * dataColByteCount + 1, k * dataColByteCount)
        value(k)   == intOfString(chunk(k), numberBases[fmt])
    IN  IF Len(workingStr) % dataColByteCount # 0 THEN NoBytes
        ELSE IF \E k \in 1..byteCount : value(k) = ValueError \/ value(k) < 0 \/ value(k) > 255
             THEN NoBytes
             ELSE [k \in 1..byteCount |-> value(k)]

\* ^F, lines 875-880, when the dialog returns a location (line 1240): the
\* user ran a search for bytesStr that found it.
KeySearchFound(bytesStr, direction) ==
    /\ status = "running"
    /\ LET location == searchIndex(data_bytes, cursorPos, bytesStr, direction)
       IN  /\ location > -1
           /\ MovePass(moveCursor(location, firstDisplayLine, N, params,
                                        0, FALSE))

\* ^F when the dialog is left with escape (line 1243).
KeySearchCancel ==
    /\ status = "running"
    /\ MovePass([cursorPos |-> cursorPos,
                              firstDisplayLine |-> firstDisplayLine])

\* Search strings typed in the data format: the byte 65 written in each
\* radix, with a blank, with a sign, out of range, of a wrong length and
\* with a character that is no digit.
DataSearchTerms ==
    {<<"4", "1">>, <<"4", " ", "1">>, <<"4">>, <<"z", "z">>,
     <<"0", "6", "5">>, <<"+", "6", "5">>, <<"9", "9", "9">>,
     <<"1", "0", "1">>,
     <<"0", "1", "0", "0", "0", "0", "0", "1">>,
     <<"+", "1", "0", "0", "0", "0", "0", "1">>}

\* ^F with the search format "data": ^J on searchStr converts it (lines
\* 1195-1211), the search finds a location (lines 1234-1240) and the
\* handler moves there (lines 875-880).
KeySearchData(searchStr, direction) ==
    /\ status = "running"
    /\ dataSearchBytes(dataFormat, searchStr) # NoBytes
    /\ KeySearchFound(dataSearchBytes(dataFormat, searchStr), direction)

\* ^F with the search format "data": ^J on a searchStr that does not
\* convert continues the dialog loop (lines 1203, 1211), which the user
\* then leaves with escape (lines 1241-1243).
KeySearchDataRefused(searchStr) ==
    /\ status = "running"
    /\ dataSearchBytes(dataFormat, searchStr) = NoBytes
    /\ KeySearchCancel

\* saveFile, lines 1253-1256; ok is whether open() and write() succeed.
\* ^W, lines 897-900.
KeyWrite(ok) ==
    /\ status = "running"
    /\ modified
    /\ IF ok
       THEN /\ fileBytes' = data_bytes
            /\ UNCHANGED <<termRows, termCols, edits>>
            /\ Pass(data_bytes, cursorPos, firstDisplayLine, <<>>, FALSE,
                    inputArea, dataFormat, params)
       ELSE /\ status' = "crashed"
            /\ editChars' = <<>>
            /\ UNCHANGED <<data_bytes, fileBytes, cursorPos, firstDisplayLine,
                           modified, inputArea, dataFormat, recSize, termRows,
                           termCols, params, edits>>

\* performMouseClick (lines 728-748) for a click at row y, column x, reached
\* from lines 901-907 or 908-920.  Rows up to the separator line are
\* clicked, so no auxiliary field is hit.
MouseClick(y, x) ==
    /\ status = "running"
    /\ LET inData == isInRectangle(<<y, x>>,
                                   <<params.dataFirstRow, params.dataLeftCol>>,
                                   <<params.dataLastRow, params.dataRightCol>>)
           inText == isInRectangle(<<y, x>>,
                                   <<params.dataFirstRow, params.textLeftCol>>,
                                   <<params.dataLastRow, params.textRightCol>>)
           pos    == convertScreenPosToCursorPos(params, firstDisplayLine, y, x)
       IN  IF (inData \/ inText) /\ pos = NeverHappens
           THEN /\ status' = "crashed"
                /\ editChars' = <<>>
                /\ inputArea' = IF inData THEN "data" ELSE "text"
                /\ UNCHANGED <<data_bytes, fileBytes, cursorPos,
                               firstDisplayLine, modified, dataFormat, recSize,
                               termRows, termCols, params, edits>>
           ELSE /\ UNCHANGED <<fileBytes, termRows, termCols, edits>>
                /\ Pass(data_bytes,
                        IF inData \/ inText THEN pos ELSE cursorPos,
                        firstDisplayLine, <<>>, modified,
                        IF inData THEN "data"
                        ELSE IF inText THEN "text" ELSE inputArea,
                        dataFormat, params)

(***************************************************************************)
(* F10, lines 889-896: showMainMenu runs one menu item (or none), then the *)
(* geometry is recomputed and moveCursor(0) is called.                     *)
(***************************************************************************)
\* The F10 pass without the reset of the accumulator (line 832).
MenuTail_keepAccumulator(cp, fdl, fmt, md) ==
    LET p2 == computeScreenParams(termRows, termCols, fmt, recSize)
        m  == moveCursor(cp, fdl, N, p2, 0, FALSE)
    IN  /\ UNCHANGED <<termRows, termCols, edits>>
        /\ Pass(data_bytes, m.cursorPos, m.firstDisplayLine, editChars, md,
                inputArea, fmt, p2)

\* Lines 892-896 and the loop top, after the menu item left cursor cp, first
\* line fdl, format fmt and modified flag md.
MenuTail(cp, fdl, fmt, md) ==
    LET p2 == computeScreenParams(termRows, termCols, fmt, recSize)
        m  == moveCursor(cp, fdl, N, p2, 0, FALSE)
    IN  /\ UNCHANGED <<termRows, termCols, edits>>
        /\ Pass(data_bytes, m.cursorPos, m.firstDisplayLine, <<>>, md,
                inputArea, fmt, p2)

\* No item runs: Help, an already selected item, or any other key.
MenuNothing ==
    /\ status = "running"
    /\ UNCHANGED fileBytes
    /\ MenuTail(cursorPos, firstDisplayLine, dataFormat, modified)

\* Options / Data display format, lines 1278-1286.
MenuSetDataDisplayFormat(df) ==
    /\ status = "running"
    /\ df \in DataFormats \ {dataFormat}
    /\ UNCHANGED fileBytes
    /\ MenuTail(cursorPos, firstDisplayLine, df, modified)

\* File / Save and File / save As, lines 1245-1261.
MenuSave(ok) ==
    /\ status = "running"
    /\ IF ok
       THEN /\ fileBytes' = data_bytes
            /\ MenuTail(cursorPos, firstDisplayLine, dataFormat,
                        FALSE)
       ELSE /\ status' = "crashed"
            /\ editChars' = <<>>
            /\ UNCHANGED <<data_bytes, fileBytes, cursorPos, firstDisplayLine,
                           modified, inputArea, dataFormat, recSize, termRows,
                           termCols, params, edits>>

\* File / eXit, lines 1263-1264.
MenuExit ==
    /\ status = "running"
    /\ status' = "exited"
    /\ editChars' = <<>>
    /\ UNCHANGED <<data_bytes, fileBytes, cursorPos, firstDisplayLine, modified,
                   inputArea, dataFormat, recSize, termRows, termCols, params,
                   edits>>

\* Search / Search..., lines 1315-1317: the dialog's result is dropped.
MenuSearch ==
    /\ status = "running"
    /\ UNCHANGED fileBytes
    /\ LET m == moveCursor(cursorPos, firstDisplayLine, N, params, 0, FALSE)
       IN  MenuTail(m.cursorPos, m.firstDisplayLine, dataFormat,
                    modified)

\* The Search menu item when the dialog finds a location: showSearchDialog
\* returns it (line 1240) to showSearchFromMenu, which does not use the
\* value (line 1316).
MenuSearchFound(bytesStr, direction) ==
    /\ status = "running"
    /\ searchIndex(data_bytes, cursorPos, bytesStr, direction) > -1
    /\ MenuSearch

\* Search / Goto offset, lines 1319-1321.
MenuGoto(sub) ==
    /\ status = "running"
    /\ UNCHANGED fileBytes
    /\ LET m == moveCursor(showNavigateToOffset(cursorPos, N, sub),
                           firstDisplayLine, N, params, 0, TRUE)
       IN  MenuTail(m.cursorPos, m.firstDisplayLine, dataFormat,
                    modified)

\* Search / goto Beginning, lines 1323-1325.
MenuBeginning ==
    /\ status = "running"
    /\ UNCHANGED fileBytes
    /\ LET m == moveCursor(0, firstDisplayLine, N, params, 0, FALSE)
       IN  MenuTail(m.cursorPos, m.firstDisplayLine,
                    dataFormat, modified)

\* Search / goto End, lines 1327-1329.
MenuEnd ==
    /\ status = "running"
    /\ UNCHANGED fileBytes
    /\ LET m == moveCursor(N, firstDisplayLine, N, params, 0, FALSE)
       IN  MenuTail(m.cursorPos, m.firstDisplayLine, dataFormat,
                    modified)

(***************************************************************************)
(* The main loop.                                                          *)
(***************************************************************************)
Next ==
    \/ \E key \in TypedChars \cap EditKeyChars : KeyData(key)
    \/ \E key \in TextChars : KeyText(key)
    \/ \E key \in (TypedChars \ EditKeyChars) \cup {"KEY_F(1)"} : KeyNoEffect(key)
    \/ \E rows \in ScreenRowsSet, cols \in ScreenColsSet : KeyResize(rows, cols)
    \/ KeyNPage
    \/ KeyPPage
    \/ \E key \in {"KEY_DOWN", "KEY_UP", "KEY_RIGHT", "KEY_LEFT"} : KeyArrow(key)
    \/ KeyHome
    \/ KeyEnd
    \/ KeyTab
    \/ \E sub \in GotoSubmissions : KeyGoto(sub)
    \/ \E bytesStr \in SearchPatterns, direction \in SearchDirections :
          KeySearchFound(bytesStr, direction)
    \/ KeySearchCancel
    \/ \E searchStr \in DataSearchTerms, direction \in SearchDirections :
          KeySearchData(searchStr, direction)
    \/ \E searchStr \in DataSearchTerms : KeySearchDataRefused(searchStr)
    \/ \E ok \in BOOLEAN : KeyWrite(ok)
    \/ \E y \in 0..(params.dataLastRow + 1), x \in ClickColsOf(params) : MouseClick(y, x)
    \/ MenuNothing
    \/ \E df \in DataFormats : MenuSetDataDisplayFormat(df)
    \/ \E ok \in BOOLEAN : MenuSave(ok)
    \/ MenuExit
    \/ MenuSearch
    \/ \E bytesStr \in SearchPatterns, direction \in SearchDirections :
          MenuSearchFound(bytesStr, direction)
    \/ \E sub \in GotoSubmissions : MenuGoto(sub)
    \/ MenuBeginning
    \/ MenuEnd

Spec == Init /\ [][Next]_vars

(***************************************************************************)
(* The editor started with --rec-size (line 1433): rows of recSize bytes.  *)
(* The file is navigated, clicked, resized and shown in another radix.     *)
(***************************************************************************)
\* Record sizes the editor is started with: one smaller than every section
\* of more than one byte, one that is no multiple of 8, 5 or 4.
(***************************************************************************)
(* The display of a byte in the data area, line 544: the format strings    *)
(* {:02x}, {:03d}, {:03o}, {:08b} of byteDisplayFormatMap (lines 31-34).   *)
(***************************************************************************)
digitChar(d) ==
    CASE d = 0 -> "0" [] d = 1 -> "1" [] d = 2 -> "2" [] d = 3 -> "3"
      [] d = 4 -> "4" [] d = 5 -> "5" [] d = 6 -> "6" [] d = 7 -> "7"
      [] d = 8 -> "8" [] d = 9 -> "9" [] d = 10 -> "a" [] d = 11 -> "b"
      [] d = 12 -> "c" [] d = 13 -> "d" [] d = 14 -> "e" [] d = 15 -> "f"

\* The digits of v in the base, without padding.
RECURSIVE toBase(_, _)
toBase(v, base) ==
    IF v < base THEN <<digitChar(v)>>
    ELSE Append(toBase(v \div base, base), digitChar(v % base))

\* Zero padding to a minimum width; a longer string is not cut.
RECURSIVE zeroPad(_, _)
zeroPad(s, width) == IF Len(s) >= width THEN s ELSE zeroPad(<<"0">> \o s, width)

\* The display without the zero padding, as {:x}, {:d}, {:o}, {:b}.
formatByte_noZeroPad(fmt, v) == toBase(v, numberBases[fmt])

formatByte(fmt, v) ==
    zeroPad(toBase(v, numberBases[fmt]), byteDisplayFormatMap[fmt][3])

(***************************************************************************)
(* The editor on a one-byte file in which only digits are typed in the     *)
(* data area, until a byte is committed.                                   *)
(***************************************************************************)
InitEntry ==
    /\ data_bytes = <<65>>
    /\ fileBytes = data_bytes
    /\ cursorPos = 0
    /\ firstDisplayLine = 0
    /\ editChars = <<>>
    /\ modified = FALSE
    /\ inputArea = "data"
    /\ dataFormat \in DataFormats
    /\ recSize = 0
    /\ termRows = 5
    /\ termCols = 80
    /\ LET t == loopTop(cursorPos, data_bytes, termRows, termCols, dataFormat,
                        recSize, computeScreenParams(termRows, termCols,
                                                     dataFormat, recSize))
       IN  params = t[1] /\ status = t[2]
    /\ edits = 0

NextEntry == edits < MaxEdits /\ \E key \in EditKeyChars : KeyData(key)

SpecEntry == InitEntry /\ [][NextEntry]_vars

(***************************************************************************)
(* A click on an auxiliary field (performMouseClick, lines 738-748) opens  *)
(* showEditDialog (lines 1017-1035) on the IntField or TimestampField of   *)
(* byte_count bytes built at the cursor by setDataFields.  outcome is what *)
(* the text of the box does: "same" is the text already shown, "written"   *)
(* a text the strVal setter packs into newBytes (lines 109-121), "raised"  *)
(* a text on which int() or struct.pack raises (line 114), "ignored" a     *)
(* text strptime refuses in a timestamp field (lines 182-186).  A field    *)
(* past the end of the buffer shows None and its setter writes nothing.    *)
(***************************************************************************)
MaxFieldEdits == 2
FieldByteValues == {65, 66}
FieldOutcomes == {"same", "written", "raised", "ignored"}

\* The field edit without the assignment of line 1035.
FieldEdit_noModifiedFlag(bc, newBytes, outcome) ==
    /\ status = "running"
    /\ edits < MaxFieldEdits
    /\ outcome = "written"
    /\ cursorPos + bc <= N
    /\ edits' = edits + 1
    /\ UNCHANGED <<fileBytes, termRows, termCols>>
    /\ Pass(PySlice(data_bytes, 0, cursorPos) \o newBytes
               \o PySliceFrom(data_bytes, cursorPos + bc),
            cursorPos, firstDisplayLine, <<>>, modified, inputArea,
            dataFormat, params)

FieldEdit(bc, newBytes, outcome) ==
    /\ status = "running"
    /\ edits < MaxFieldEdits
    /\ LET present == cursorPos + bc <= N
       IN  CASE outcome = "same" ->
                  /\ present
                  /\ UNCHANGED <<fileBytes, termRows, termCols, edits>>
                  /\ Pass(data_bytes, cursorPos, firstDisplayLine, <<>>,
                          modified, inputArea, dataFormat, params)
             [] outcome = "raised" ->
                  /\ present
                  /\ status' = "crashed"
                  /\ editChars' = <<>>
                  /\ UNCHANGED <<data_bytes, fileBytes, cursorPos,
                                 firstDisplayLine, modified, inputArea,
                                 dataFormat, recSize, termRows, termCols,
                                 params, edits>>
             [] outcome = "ignored" ->
                  /\ present
                  /\ bc = 4
                  /\ edits' = edits + 1
                  /\ UNCHANGED <<fileBytes, termRows, termCols>>
                  /\ Pass(data_bytes, cursorPos, firstDisplayLine, <<>>,
                          TRUE, inputArea, dataFormat, params)
             [] outcome = "written" ->
                  /\ edits' = edits + 1
                  /\ UNCHANGED <<fileBytes, termRows, termCols>>
                  /\ Pass(IF present
                          THEN PySlice(data_bytes, 0, cursorPos) \o newBytes
                                 \o PySliceFrom(data_bytes, cursorPos + bc)
                          ELSE data_bytes,
                          cursorPos, firstDisplayLine, <<>>, TRUE, inputArea,
                          dataFormat, params)

(***************************************************************************)
(* The editor on a short file that is edited, in the data area, in the     *)
(* text area and through the auxiliary fields, and saved.                  *)
(***************************************************************************)
SavedBuffers == {<<65>>, <<65, 66, 65, 66>>}

InitSave ==
    /\ data_bytes \in SavedBuffers
    /\ fileBytes = data_bytes
    /\ cursorPos = 0
    /\ firstDisplayLine = 0
    /\ editChars = <<>>
    /\ modified = FALSE
    /\ inputArea = "data"
    /\ dataFormat \in DataFormats
    /\ recSize = 0
    /\ termRows = 5
    /\ termCols = 80
    /\ LET t == loopTop(cursorPos, data_bytes, termRows, termCols, dataFormat,
                        recSize, computeScreenParams(termRows, termCols,
                                                     dataFormat, recSize))
       IN  params = t[1] /\ status = t[2]
    /\ edits = 0

NextSave ==
    \/ \E key \in TypedChars \cap EditKeyChars : KeyData(key)
    \/ \E key \in TextChars : KeyText(key)
    \/ KeyTab
    \/ \E key \in {"KEY_RIGHT", "KEY_LEFT"} : KeyArrow(key)
    \/ \E bc \in FieldByteCounts, outcome \in FieldOutcomes :
          \E b \in FieldByteValues :
             FieldEdit(bc, [i \in 1..bc |-> b], outcome)
    \/ \E ok \in BOOLEAN : KeyWrite(ok)
    \/ \E ok \in BOOLEAN : MenuSave(ok)

SpecSave == InitSave /\ [][NextSave]_vars

(***************************************************************************)
(* The editor on a file of several pages, in which the user moves.         *)
(***************************************************************************)
PageBufferLen == 26
PageBuffer == [i \in 1..PageBufferLen |-> 64 + i]

InitPage ==
    /\ data_bytes = PageBuffer
    /\ fileBytes = data_bytes
    /\ cursorPos = 0
    /\ firstDisplayLine = 0
    /\ editChars = <<>>
    /\ modified = FALSE
    /\ inputArea = "data"
    /\ dataFormat \in DataFormats
    /\ recSize = 0
    /\ termRows \in ScreenRowsSet
    /\ termCols = 80
    /\ LET t == loopTop(cursorPos, data_bytes, termRows, termCols, dataFormat,
                        recSize, computeScreenParams(termRows, termCols,
                                                     dataFormat, recSize))
       IN  params = t[1] /\ status = t[2]
    /\ edits = 0

NextPage ==
    \/ KeyNPage
    \/ KeyPPage
    \/ \E key \in {"KEY_DOWN", "KEY_UP", "KEY_RIGHT", "KEY_LEFT"} : KeyArrow(key)
    \/ KeyHome
    \/ KeyEnd
    \/ \E rows \in ScreenRowsSet : KeyResize(rows, 80)
    \/ \E df \in DataFormats : MenuSetDataDisplayFormat(df)

SpecPage == InitPage /\ [][NextPage]_vars

RecSizes == {3, 10}
\* Columns clicked: inside the first section of the data area, and further
\* to the right in it.
RecClickCols == {12, 30}

InitRec ==
    /\ data_bytes = ABCXYZABCXYZA
    /\ fileBytes = data_bytes
    /\ cursorPos = 0
    /\ firstDisplayLine = 0
    /\ editChars = <<>>
    /\ modified = FALSE
    /\ inputArea = "data"
    /\ dataFormat \in DataFormats
    /\ recSize \in RecSizes
    /\ termRows \in ScreenRowsSet
    /\ termCols = 80
    /\ LET t == loopTop(cursorPos, data_bytes, termRows, termCols, dataFormat,
                        recSize, computeScreenParams(termRows, termCols,
                                                     dataFormat, recSize))
       IN  params = t[1] /\ status = t[2]
    /\ edits = 0

NextRec ==
    \/ \E rows \in ScreenRowsSet : KeyResize(rows, 80)
    \/ KeyNPage
    \/ KeyPPage
    \/ \E key \in {"KEY_DOWN", "KEY_UP", "KEY_RIGHT", "KEY_LEFT"} : KeyArrow(key)
    \/ KeyHome
    \/ KeyEnd
    \/ KeyTab
    \/ \E y \in 0..params.dataLastRow, x \in RecClickCols : MouseClick(y, x)
    \/ \E df \in DataFormats : MenuSetDataDisplayFormat(df)

SpecRec == InitRec /\ [][NextRec]_vars

(***************************************************************************)
(* redraw, lines 519-566: the byte offsets whose cell the row loop draws   *)
(* (an offset at or past the end of the file is drawn as blanks).          *)
(***************************************************************************)
redrawnOffsets(p, fdl) ==
    {(fdl + row) * p.rowByteCount + k :
        row \in 0..p.dataLastRow,
        k \in 0..(p.dataSectionCount * p.dataSectionBytes - 1)}


(***************************************************************************)
(* Properties.                                                             *)
(***************************************************************************)
\* The row of byte cp lies in the viewport that starts at line fdl.
CursorOnScreen(cp, fdl, p) ==
    /\ fdl <= cp \div p.rowByteCount
    /\ cp \div p.rowByteCount <= fdl + p.dataRowCount - 1

\* The calls of moveCursor the key handlers make from the state the editor
\* is in: <<shift of the first line before the call, byteCount>>, for the
\* arrows, the cancelled dialogs and the page keys (lines 835-850, 874).
MoveCalls(p) ==
    {<<0, -1>>, <<0, 1>>, <<0, 0>>,
     <<0, p.rowByteCount>>, <<0, -(p.rowByteCount)>>,
     <<p.dataRowCount, p.rowByteCount * p.dataRowCount>>,
     <<-(p.dataRowCount), -(p.rowByteCount * p.dataRowCount)>>}

\* The cursor offsets the handlers hand to moveCursor: where the cursor is,
\* and where Home, End and goto End put it (lines 859, 862, 1328).
MoveStarts == {cursorPos, 0, N - 1, N}

\* C1: after every cursor movement through moveCursor on a nonempty buffer
\* (any delta, either normalize setting) the row of the cursor is on-screen:
\* firstDisplayLine <= cursorPos div rowByteCount
\*                  <= firstDisplayLine + dataRowCount - 1.
C1_MoveKeepsCursorOnScreen ==
    (status = "running" /\ N > 0) =>
        \A call \in MoveCalls(params), normalize \in BOOLEAN :
            LET m == moveCursor(cursorPos, firstDisplayLine + call[1], N,
                                params, call[2], normalize)
            IN  CursorOnScreen(m.cursorPos, m.firstDisplayLine, params)

\* C2: on a nonempty buffer moveCursor never leaves the cursor outside
\* 0 .. N-1.
C2_MoveKeepsCursorInFile ==
    (status = "running" /\ N > 0) =>
        \A call \in MoveCalls(params), normalize \in BOOLEAN :
            LET m == moveCursor(cursorPos, firstDisplayLine + call[1], N,
                                params, call[2], normalize)
            IN  0 <= m.cursorPos /\ m.cursorPos <= N - 1

\* C3: in every reachable state, the empty buffer included, the cursor
\* offset lies in 0 .. N.
C3_CursorWithinBuffer == 0 <= cursorPos /\ cursorPos <= N

\* C4: the length of the buffer never changes after load: no step of the
\* editor, an edit at any reachable cursor position included, changes it.
C4_LengthNeverChanges == [][Len(data_bytes') = Len(data_bytes)]_vars

\* max(0, ceil(n / rowByteCount) - dataRowCount + 1)
maxFirstRow(n, p) ==
    Max(0, (n + p.rowByteCount - 1) \div p.rowByteCount - p.dataRowCount + 1)

\* C5: moveCursor never leaves firstDisplayLine outside 0 .. maxFirstRow,
\* for every buffer length, radix and starting viewport, a viewport the page
\* keys shifted before the call included.
C5_MoveKeepsViewportInRange ==
    status = "running" =>
        \A cp \in MoveStarts, call \in MoveCalls(params), normalize \in BOOLEAN :
            LET m == moveCursor(cp, firstDisplayLine + call[1], N, params,
                                call[2], normalize)
            IN  /\ 0 <= m.firstDisplayLine
                /\ m.firstDisplayLine <= maxFirstRow(N, params)

\* The viewport is scrolled and its last row is at or below the last row of
\* the file: a page-down (shift, move, clamp) has brought it there.
C5_Witness ==
    /\ status = "running"
    /\ firstDisplayLine > 0
    /\ firstDisplayLine + params.dataRowCount - 1
           >= (N - 1) \div params.rowByteCount

\* The byte offsets whose row is in the viewport.
OnScreenOffsets(p, fdl) ==
    {line * p.rowByteCount + i :
        line \in fdl..(fdl + p.dataRowCount - 1), i \in 0..(p.rowByteCount - 1)}

\* C6: with no record size, in each radix and for every on-screen offset o,
\* the screen position of o in the data area and the one in the text area
\* both convert back to o.
C6_PositionRoundTrip ==
    (status = "running" /\ recSize = 0) =>
        \A o \in OnScreenOffsets(params, firstDisplayLine) :
            LET d == dataDisplayCursorPos(params, firstDisplayLine, o)
                t == textDisplayCursorPos(params, firstDisplayLine, o)
            IN  /\ convertScreenPosToCursorPos(params, firstDisplayLine,
                                               d[1], d[2]) = o
                /\ convertScreenPosToCursorPos(params, firstDisplayLine,
                                               t[1], t[2]) = o

\* A scrolled two-row viewport with no record size: its offsets are not
\* those of the first rows of the file.
C6_Witness ==
    /\ status = "running"
    /\ recSize = 0
    /\ firstDisplayLine > 0
    /\ params.dataRowCount = 2

\* C7: at every redraw, whatever event came before it, the row of the
\* cursor lies in the viewport.
C7_CursorVisibleAtRedraw ==
    status = "running" => CursorOnScreen(cursorPos, firstDisplayLine, params)

\* C8: in the data area, in every radix, the legal digit that completes
\* charsPerByte digits of value v <= 255 writes v at the offset the cursor
\* held and advances the cursor by one byte.
C8_CommitWritesAtCursorAndAdvances ==
    (status = "running" /\ inputArea = "data") =>
        \A key \in validInputChars[dataFormat] :
            LET ec1 == Append(editChars, key)
                v   == pyInt(ec1, numberBases[dataFormat])
                r   == editData(data_bytes, cursorPos, firstDisplayLine,
                                editChars, modified, params, dataFormat, key)
            IN  (Len(ec1) = byteDisplayFormatMap[dataFormat][3] /\ v <= 255) =>
                    /\ cursorPos + 1 <= Len(r.data_bytes)
                    /\ r.data_bytes[cursorPos + 1] = v
                    /\ r.cursorPos = cursorPos + 1


\* A pass for a character typed in the data area that is no legal digit of
\* the radix.
IllegalCharStep ==
    \E key \in TypedChars \ validInputChars[dataFormat] :
        KeyData(key) \/ (key \notin EditKeyChars /\ KeyNoEffect(key))

\* C9: a typed character that is no legal digit of the radix is rejected with
\* no state change: the accumulator and the buffer are as before, whatever
\* digits were pending.
C9_IllegalCharChangesNothing ==
    [][IllegalCharStep => UNCHANGED <<editChars, data_bytes>>]_vars

\* A pass through the else branch of mainLoop (line 831): any key that is
\* no edit of the data or text area.
NonEditStep ==
    \/ \E key \in (TypedChars \ EditKeyChars) \cup {"KEY_F(1)"} : KeyNoEffect(key)
    \/ \E rows \in ScreenRowsSet, cols \in ScreenColsSet : KeyResize(rows, cols)
    \/ KeyNPage \/ KeyPPage \/ KeyHome \/ KeyEnd \/ KeyTab
    \/ \E key \in {"KEY_DOWN", "KEY_UP", "KEY_RIGHT", "KEY_LEFT"} : KeyArrow(key)
    \/ \E sub \in GotoSubmissions : KeyGoto(sub) \/ MenuGoto(sub)
    \/ \E bytesStr \in SearchPatterns, direction \in SearchDirections :
          KeySearchFound(bytesStr, direction)
    \/ KeySearchCancel
    \/ \E searchStr \in DataSearchTerms, direction \in SearchDirections :
          KeySearchData(searchStr, direction)
    \/ \E searchStr \in DataSearchTerms : KeySearchDataRefused(searchStr)
    \/ \E ok \in BOOLEAN : KeyWrite(ok) \/ MenuSave(ok)
    \/ \E y \in 0..(params.dataLastRow + 1), x \in ClickColsOf(params) : MouseClick(y, x)
    \/ MenuNothing
    \/ \E df \in DataFormats : MenuSetDataDisplayFormat(df)
    \/ MenuExit \/ MenuSearch \/ MenuBeginning \/ MenuEnd

\* C10, amended: the accumulator is empty right after the digit
\* that completes a byte (committed or discarded), after any key that is no
\* edit (navigation, tab, dialog, menu, click, resize, a character outside
\* '0123456789abcdefABCDEF') and after a change of radix.
C10_AccumulatorEmptied ==
    /\ []((status = "running" /\ inputArea = "data") =>
            \A key \in validInputChars[dataFormat] :
                Len(editChars) + 1 = byteDisplayFormatMap[dataFormat][3] =>
                    editData(data_bytes, cursorPos, firstDisplayLine,
                             editChars, modified, params, dataFormat,
                             key).editChars = <<>>)
    /\ [][editChars' = <<>> \/ ~NonEditStep]_vars

\* The hex digits '1', '9' were committed to the empty file as byte 0x19 and
\* nothing is pending.
C10_Witness ==
    /\ status = "running"
    /\ inputArea = "data"
    /\ edits = 1
    /\ data_bytes = <<25>>
    /\ editChars = <<>>

\* C10 as stated, for the keys of the data edit branch: the accumulator is
\* empty right after a commit and right after a rejected digit.
C10_EmptyAfterCommitOrRejectedDigit ==
    (status = "running" /\ inputArea = "data") =>
        \A key \in EditKeyChars :
            (\/ key \notin validInputChars[dataFormat]
             \/ Len(editChars) + 1 = byteDisplayFormatMap[dataFormat][3]) =>
                editData(data_bytes, cursorPos, firstDisplayLine, editChars,
                         modified, params, dataFormat, key).editChars = <<>>

\* A legal digit typed in the data area completes charsPerByte digits whose
\* value is above 255.
OverRange(key) ==
    /\ key \in validInputChars[dataFormat]
    /\ Len(editChars) + 1 = byteDisplayFormatMap[dataFormat][3]
    /\ pyInt(Append(editChars, key), numberBases[dataFormat]) > 255

\* C11: when charsPerByte legal digits have been accumulated and their value
\* exceeds 255, the write is discarded: the buffer, the cursor offset and the
\* modified flag are unchanged and the accumulator is emptied.  Stated for
\* every legal digit in every reachable state, and for the steps the typed
\* digits take.
C11_OverRangeDiscarded ==
    /\ []((status = "running" /\ inputArea = "data") =>
            \A key \in EditKeyChars :
                OverRange(key) =>
                    LET r == editData(data_bytes, cursorPos, firstDisplayLine,
                                      editChars, modified, params, dataFormat,
                                      key)
                    IN  /\ r.data_bytes = data_bytes
                        /\ r.cursorPos = cursorPos
                        /\ r.modified = modified
                        /\ r.editChars = <<>>)
    /\ [][(\E key \in TypedChars \cap EditKeyChars :
               OverRange(key) /\ KeyData(key)) =>
            (/\ UNCHANGED <<data_bytes, cursorPos, modified>>
             /\ editChars' = <<>>)]_vars

\* Decimal with "99" pending on a file that was edited before: the next '9'
\* makes 999.
C11_Witness ==
    /\ status = "running"
    /\ inputArea = "data"
    /\ dataFormat = "decimal"
    /\ editChars = <<"9", "9">>
    /\ modified
    /\ N > 0

\* The cursor is on the top row of the viewport and every row of the page
\* below the viewport holds at least one byte of the file.
TopRowWithFurtherPage ==
    /\ status = "running"
    /\ cursorPos >= 0
    /\ cursorPos \div params.rowByteCount = firstDisplayLine
    /\ N > (firstDisplayLine + 2 * params.dataRowCount - 1) * params.rowByteCount

\* C12 for the page key: from a cursor on the top row of the viewport, with
\* a full further page in the file, Page Down (line 837 shifts the first
\* line by dataRowCount, then line 838 calls
\* moveCursor(rowByteCount * dataRowCount)) advances firstDisplayLine by
\* exactly dataRowCount.
C12_PageDownAdvancesByPage ==
    [][(TopRowWithFurtherPage /\ KeyNPage) =>
        firstDisplayLine' = firstDisplayLine + params.dataRowCount]_vars

\* Binary, two data rows, the 13-byte file: the viewport starts at row 2
\* with the cursor on that row, where Page Down from row 0 puts them.
C12_Witness ==
    /\ status = "running"
    /\ dataFormat = "binary"
    /\ params.dataRowCount = 2
    /\ N = 13
    /\ firstDisplayLine = 2
    /\ cursorPos \div params.rowByteCount = 2

\* C12 for the call alone: moveCursor(rowByteCount * dataRowCount) with
\* normalize unset, from a cursor on the top row of the viewport with a full
\* further page, advances firstDisplayLine by exactly dataRowCount.
C12_MoveByPageAdvancesByPage ==
    TopRowWithFurtherPage =>
        moveCursor(cursorPos, firstDisplayLine, N, params,
                   params.rowByteCount * params.dataRowCount,
                   FALSE).firstDisplayLine
            = firstDisplayLine + params.dataRowCount

\* C13: with normalize set, moveCursor leaves firstDisplayLine equal to the
\* row of the cursor, whether or not that row was already on-screen.  Stated
\* for the call of the goto path (line 874) on every target the goto box
\* leaves inside the file.
C13_NormalizeSnapsToCursorRow ==
    (status = "running" /\ N > 0) =>
        \A sub \in GotoSubmissions :
            LET target == showNavigateToOffset(cursorPos, N, sub)
                m      == moveCursor(target, firstDisplayLine, N, params, 0,
                                     TRUE)
            IN  (0 <= target /\ target < N) =>
                    m.firstDisplayLine = m.cursorPos \div params.rowByteCount

\* The byte counts the key handlers pass to moveCursor with normalize unset
\* (lines 838-850, 859-863, 816).
MoveDeltas(p) ==
    {-1, 0, 1, p.rowByteCount, -(p.rowByteCount),
     p.rowByteCount * p.dataRowCount, -(p.rowByteCount * p.dataRowCount)}

\* C14: with normalize unset, a move that leaves the row of the cursor below
\* the last visible row increases firstDisplayLine by exactly
\* cursorLine - lastDisplayLine, so that the cursor is on the bottom row of
\* the viewport; a move that leaves it above the first visible row makes
\* firstDisplayLine the row of the cursor.
C14_MinimalScroll ==
    (status = "running" /\ N > 0) =>
        \A byteCount \in MoveDeltas(params) :
            LET m          == moveCursor(cursorPos, firstDisplayLine, N, params,
                                         byteCount, FALSE)
                cursorLine == m.cursorPos \div params.rowByteCount
                lastDisplayLine == firstDisplayLine + params.dataRowCount - 1
            IN  /\ cursorLine > lastDisplayLine =>
                      /\ m.firstDisplayLine
                             = firstDisplayLine + (cursorLine - lastDisplayLine)
                      /\ cursorLine
                             = m.firstDisplayLine + params.dataRowCount - 1
                /\ cursorLine < firstDisplayLine =>
                      m.firstDisplayLine = cursorLine

\* C15: in every reachable state, those that follow a resize or a change of
\* radix included, moveCursor(0) with normalize unset, called when the row
\* of the cursor is inside the viewport, does not change firstDisplayLine.
C15_MoveZeroKeepsViewport ==
    (status = "running"
        /\ CursorOnScreen(cursorPos, firstDisplayLine, params)) =>
        moveCursor(cursorPos, firstDisplayLine, N, params, 0,
                   FALSE).firstDisplayLine = firstDisplayLine

\* The pattern is in the buffer at offset i, whole.
PatternAt(pat, i) ==
    /\ 0 <= i
    /\ i + Len(pat) <= N
    /\ SubSeq(data_bytes, i + 1, i + Len(pat)) = pat

\* C16: a forward search returns the smallest offset i >= cursorPos + 1 at
\* which the pattern occurs in the buffer, and "not found" (-1) when there
\* is none; in ABCXYZABC from cursor 0 the pattern ABC is found at 6.
C16_ForwardSearchFindsNext ==
    status = "running" =>
        /\ \A pat \in SearchPatterns :
              LET index == searchIndex(data_bytes, cursorPos, pat, "forward")
                  occurrences == {i \in (cursorPos + 1)..N : PatternAt(pat, i)}
              IN  IF occurrences = {} THEN index = -1
                  ELSE /\ index \in occurrences
                       /\ \A i \in occurrences : index <= i
        /\ (data_bytes = ABCXYZABC /\ cursorPos = 0) =>
              searchIndex(data_bytes, cursorPos, <<65, 66, 67>>, "forward") = 6

\* The cursor is on the second ABC of ABCXYZABC, where the forward search
\* from offset 0 puts it.
C16_Witness ==
    /\ status = "running"
    /\ data_bytes = ABCXYZABC
    /\ cursorPos = 6
    /\ edits = 0

\* A backward search for ABC run with the cursor at offset 8 of ABCXYZABC.
BackwardFrom8 ==
    /\ data_bytes = ABCXYZABC
    /\ cursorPos = 8
    /\ KeySearchFound(<<65, 66, 67>>, "backward")

\* C17, with the offset the code returns: with buffer ABCXYZABC and the
\* cursor at offset 8, a backward search for ABC returns offset 6, the
\* greatest offset below the cursor at which ABC occurs, and the cursor goes
\* there.
C17_BackwardFrom8Finds6 ==
    /\ []((status = "running" /\ data_bytes = ABCXYZABC /\ cursorPos = 8) =>
            searchIndex(data_bytes, cursorPos, <<65, 66, 67>>, "backward") = 6)
    /\ [][BackwardFrom8 => cursorPos' = 6]_vars

\* The cursor is on the last byte of ABCXYZABC.
C17_Witness ==
    /\ status = "running"
    /\ data_bytes = ABCXYZABC
    /\ cursorPos = 8
    /\ edits = 0

\* C17: with buffer ABCXYZABC and the cursor at offset 8, a backward search
\* for ABC returns offset 0.
C17_BackwardFrom8Finds0 ==
    (status = "running" /\ data_bytes = ABCXYZABC /\ cursorPos = 8) =>
        searchIndex(data_bytes, cursorPos, <<65, 66, 67>>, "backward") = 0

\* The table of the radixes: (groupCount, bytesPerGroup, charsPerByte).
RadixTable ==
    [hex |-> <<2, 8, 2>>, decimal |-> <<2, 5, 3>>, octal |-> <<3, 4, 3>>,
     binary |-> <<4, 1, 8>>]

\* Screen widths, the terminal's among them, at which the geometry is
\* compared.
WidthsCompared == ScreenColsSet \cup {termCols, 1, 60, 132}

\* C18: with no record size, for each radix, rowByteCount = groupCount *
\* bytesPerGroup; dataSectionWidth = groupCount*bytesPerGroup*charsPerByte +
\* (groupCount - 1); dataLeftCol = 9; dataRightCol = dataLeftCol +
\* dataSectionWidth - 1; textSectionWidth = groupCount*bytesPerGroup +
\* (groupCount - 1); textLeftCol = dataRightCol + 2; textRightCol =
\* textLeftCol + textSectionWidth - 1, with the table above, whatever the
\* screen width.  Stated for the geometry the editor holds and for the one
\* computed at other widths.
C18_GeometryFormulas ==
    recSize = 0 =>
        LET groupCount    == RadixTable[dataFormat][1]
            bytesPerGroup == RadixTable[dataFormat][2]
            charsPerByte  == RadixTable[dataFormat][3]
            dataWidth     == groupCount * bytesPerGroup * charsPerByte
                                + (groupCount - 1)
            textWidth     == groupCount * bytesPerGroup + (groupCount - 1)
            Formulas(p)   ==
                /\ p.rowByteCount = groupCount * bytesPerGroup
                /\ p.dataSectionWidth = dataWidth
                /\ p.dataLeftCol = 9
                /\ p.dataRightCol = 9 + dataWidth - 1
                /\ p.textSectionWidth = textWidth
                /\ p.textLeftCol = 9 + dataWidth - 1 + 2
                /\ p.textRightCol = 9 + dataWidth - 1 + 2 + textWidth - 1
        IN  /\ Formulas(params)
            /\ \A cols \in WidthsCompared :
                  Formulas(computeScreenParams(termRows, cols, dataFormat,
                                               recSize))

\* The octal geometry is in place: data columns 9..46, text columns 48..61.
C18_Witness ==
    /\ status = "running"
    /\ recSize = 0
    /\ dataFormat = "octal"
    /\ params.dataRightCol = 46
    /\ params.textLeftCol = 48
    /\ params.textRightCol = 61

\* Screen heights at which the geometry is compared.
HeightsCompared == ScreenRowsSet \cup {termRows, 3, 4, 24}

\* C19: the number of on-screen data rows equals
\* screenRows - 1 - auxRowCount - 2 and is never less than 1, for every
\* screen height.
C19_RowCapacity ==
    /\ params.dataRowCount = params.screenRows - 1 - AuxRowCount - 2
    /\ params.dataRowCount >= 1
    /\ \A rows \in HeightsCompared :
          LET p == computeScreenParams(rows, termCols, dataFormat, recSize)
          IN  /\ p.dataRowCount = rows - 1 - AuxRowCount - 2
              /\ p.dataRowCount >= 1

C21_TooNarrowIsRecoverable ==
    [][(\E rows \in ScreenRowsSet, cols \in ScreenColsSet :
            KeyResize(rows, cols)) => status' = "running"]_vars

\* C22: a switch of radix through the options menu preserves the byte
\* offset of the cursor and the contents of the buffer.
C22_FormatSwitchPreservesCursorAndBuffer ==
    [][(\E df \in DataFormats : MenuSetDataDisplayFormat(df)) =>
        (cursorPos' = cursorPos /\ data_bytes' = data_bytes)]_vars

\* C23: from every reachable state, cancelling a dialog (an empty or
\* unparsable goto box, escape in the search dialog) leaves the cursor
\* offset, the first display line, the buffer and the geometry as they were.
C23_CancelChangesNothing ==
    [][(KeyGoto([kind |-> "cancel"]) \/ KeySearchCancel) =>
        UNCHANGED <<cursorPos, firstDisplayLine, data_bytes, params>>]_vars

\* C24: with a record size whose remainder by the section size is not zero,
\* every byte of every visible row is drawn: each offset of the file that
\* lies on a row of the viewport is among the offsets redraw draws.
C24_PartialSectionDisplayed ==
    (status = "running" /\ recSize # 0
        /\ recSize % params.dataSectionBytes # 0) =>
        \A o \in OnScreenOffsets(params, firstDisplayLine) :
            o < N => o \in redrawnOffsets(params, firstDisplayLine)

\* C25: the modified flag is cleared only by a save that succeeded, and a
\* save that fails leaves the flag set and the session alive (the failure
\* is reported to the user, the editor goes on).
C25_FailedSaveKeepsSessionAndFlag ==
    [][/\ (modified /\ ~modified') => fileBytes' = data_bytes
       /\ (KeyWrite(FALSE) \/ MenuSave(FALSE)) =>
             (modified' = modified /\ status' = "running")]_vars

\* What is submitted to the goto box with a target that may lie outside the
\* file: absolute offsets, and relative ones whose number carries its own
\* sign ('+-5', '--5').
OutsideSubmissions ==
    {[kind |-> "absolute", offset |-> o] : o \in {5, 13, 100}}
    \cup {[kind |-> "relative", relativeDirection |-> d, offset |-> o] :
            d \in {1, -1}, o \in {-100, -5, 3, 100}}

\* C26: on a nonempty buffer, a goto whose target is outside the buffer
\* (absolute >= N, '+k' past the end, '-k' before the start, a signed number
\* after the sign) ends with the cursor in 0 .. N-1.  Stated for the call
\* sequence of lines 873-874 from every reachable state, and for the steps
\* of ^G.
C26_GotoEndsInsideFile ==
    /\ []((status = "running" /\ N > 0) =>
            \A sub \in OutsideSubmissions :
                LET m == moveCursor(showNavigateToOffset(cursorPos, N, sub),
                                    firstDisplayLine, N, params, 0, TRUE)
                IN  0 <= m.cursorPos /\ m.cursorPos <= N - 1)
    /\ [][(N > 0 /\ \E sub \in GotoSubmissions : KeyGoto(sub)) =>
            (0 <= cursorPos' /\ cursorPos' <= N - 1)]_vars

\* The cursor is on the last byte of the 13-byte file with the viewport
\* snapped to its row, in binary: where a goto to offset 100 ends.
C26_Witness ==
    /\ status = "running"
    /\ N = 13
    /\ cursorPos = 12
    /\ dataFormat = "binary"
    /\ params.dataRowCount = 1
    /\ firstDisplayLine = 3

\* C27: in every state between input events the accumulator holds at most
\* charsPerByte - 1 characters, each a legal digit of the current radix, and
\* it is empty while the text area is the input area: no digit survives a
\* change of radix or a switch of input area.
C27_AccumulatorWellFormed ==
    /\ Len(editChars) <= byteDisplayFormatMap[dataFormat][3] - 1
    /\ \A i \in 1..Len(editChars) :
          editChars[i] \in validInputChars[dataFormat]
    /\ inputArea = "text" => editChars = <<>>

\* Binary with seven digits pending, one short of a byte.
C27_Witness ==
    /\ status = "running"
    /\ dataFormat = "binary"
    /\ Len(editChars) = 7

\* C28: a backward search returns the greatest offset i < cursorPos at which
\* the pattern occurs (the match ends before cursorPos + len(pattern)), and
\* "not found" (-1) when there is none; it never returns the offset of the
\* cursor.
C28_BackwardSearchFindsPrevious ==
    status = "running" =>
        \A pat \in SearchPatterns :
            LET index == searchIndex(data_bytes, cursorPos, pat, "backward")
                occurrences == {i \in 0..(cursorPos - 1) : PatternAt(pat, i)}
            IN  /\ index # cursorPos
                /\ IF occurrences = {} THEN index = -1
                   ELSE /\ index \in occurrences
                        /\ \A i \in occurrences : index >= i

\* C29: with a fixed record size (smaller than a section, or not a multiple
\* of one, included), for every on-screen offset o the screen position of o
\* in the data area and the one in the text area both convert back to o.
C29_RecordRoundTrip ==
    (status = "running" /\ recSize # 0) =>
        \A o \in OnScreenOffsets(params, firstDisplayLine) :
            LET d == dataDisplayCursorPos(params, firstDisplayLine, o)
                t == textDisplayCursorPos(params, firstDisplayLine, o)
            IN  /\ convertScreenPosToCursorPos(params, firstDisplayLine,
                                               d[1], d[2]) = o
                /\ convertScreenPosToCursorPos(params, firstDisplayLine,
                                               t[1], t[2]) = o

\* C30: the "Should never happen" assertion of the column walk is
\* unreachable: in every geometry, a click accepted as inside the data or
\* the text region converts to a byte offset within the clicked row.
C30_AssertionUnreachable ==
    status = "running" =>
        \A y \in params.dataFirstRow..params.dataLastRow, x \in 0..(termCols - 1) :
            LET inData == isInRectangle(<<y, x>>,
                              <<params.dataFirstRow, params.dataLeftCol>>,
                              <<params.dataLastRow, params.dataRightCol>>)
                inText == isInRectangle(<<y, x>>,
                              <<params.dataFirstRow, params.textLeftCol>>,
                              <<params.dataLastRow, params.textRightCol>>)
                pos    == convertScreenPosToCursorPos(params, firstDisplayLine, y, x)
                rowStart == params.rowByteCount * (y - params.dataFirstRow + firstDisplayLine)
            IN  (inData \/ inText) =>
                    /\ pos # NeverHappens
                    /\ rowStart <= pos
                    /\ pos < rowStart + params.rowByteCount

\* C31: with no record size, every column of the cells of a byte converts to
\* that byte, in the data area and in the text area, and the gap column
\* after a section converts, in both areas, to the first byte of the
\* following section.
C31_NonStartColumns ==
    (status = "running" /\ recSize = 0) =>
        \A y \in params.dataFirstRow..params.dataLastRow :
            LET rowStart == params.rowByteCount * (y - params.dataFirstRow + firstDisplayLine)
                conv(x)  == convertScreenPosToCursorPos(params, firstDisplayLine, y, x)
            IN  /\ \A b \in 0..(params.rowByteCount - 1) :
                       LET sec == b \div params.dataSectionBytes
                       IN  /\ \A j \in 0..(params.dataColByteCount - 1) :
                                  conv(params.dataLeftCol + params.dataColByteCount * b + sec + j) = rowStart + b
                           /\ conv(params.textLeftCol + b + sec) = rowStart + b
                /\ \A sec \in 0..(params.dataSectionCount - 2) :
                       LET next == (sec + 1) * params.dataSectionBytes
                       IN  /\ conv(params.dataLeftCol + params.dataColByteCount * next + sec) = rowStart + next
                           /\ conv(params.textLeftCol + next + sec) = rowStart + next

\* A scrolled octal viewport: three sections of four three-column cells
\* with two gap columns in each area.
C31_Witness ==
    /\ status = "running"
    /\ recSize = 0
    /\ dataFormat = "octal"
    /\ firstDisplayLine > 0
    /\ params.dataSectionCount = 3
    /\ params.dataColByteCount = 3

\* C32: convertScreenPosToCursorPos returns None for every position whose
\* row is outside the data rows or whose column is in neither the data area
\* nor the text area, and a click on such a position leaves the cursor
\* where it is.
C32_OutsideClickIgnored ==
    /\ [](status = "running" =>
            \A y \in -1..(termRows - 1), x \in 0..(termCols - 1) :
                (\/ y < params.dataFirstRow \/ y > params.dataLastRow
                 \/ x < params.dataLeftCol
                 \/ (params.dataRightCol < x /\ x < params.textLeftCol)
                 \/ x > params.textRightCol)
                    => convertScreenPosToCursorPos(params, firstDisplayLine, y, x) = NoPos)
    /\ [][\A y \in 0..(params.dataLastRow + 1), x \in ClickColsOf(params) :
              (/\ MouseClick(y, x)
               /\ convertScreenPosToCursorPos(params, firstDisplayLine, y, x) = NoPos)
                  => (cursorPos' = cursorPos /\ status' = "running")]_vars

\* The cursor is away from offset 0 in a scrolled viewport, where a click
\* that were not ignored would move it, and the text area is the input
\* area, which a click in the data area would change.
C32_Witness ==
    /\ status = "running"
    /\ cursorPos > 0
    /\ firstDisplayLine > 0
    /\ inputArea = "text"

\* C33: at every redraw the stored geometry is the one computed from the
\* current screen size, radix and record size; a resize or a change of
\* format is followed by a recomputation before the next redraw.
C33_NoStaleGeometry ==
    /\ [](status = "running" =>
            params = computeScreenParams(termRows, termCols, dataFormat, recSize))
    /\ [][((\/ \E rows \in ScreenRowsSet, cols \in ScreenColsSet : KeyResize(rows, cols)
            \/ \E df \in DataFormats : MenuSetDataDisplayFormat(df))
           /\ status' = "running")
              => params' = computeScreenParams(termRows', termCols', dataFormat', recSize')]_vars

\* Binary rows of four bytes on a six-row terminal with the cursor moved:
\* the geometry differs from the hex one and from the five-row one.
C33_Witness ==
    /\ status = "running"
    /\ cursorPos > 0
    /\ termRows = 6
    /\ dataFormat = "binary"
    /\ params.rowByteCount = 4
    /\ params.statusRow = 5

\* A search string of the data format as the radix writes bytes: without
\* its blanks, a whole number of groups of charsPerByte digits of the
\* radix, each group a value of 0..255.
WellFormedTerm(fmt, searchStr) ==
    LET charsPerByte == byteDisplayFormatMap[fmt][3]
        w == SelectSeq(searchStr, LAMBDA c : c # " ")
    IN  /\ Len(w) % charsPerByte = 0
        /\ \A i \in 1..Len(w) : isDigitOf(w[i], numberBases[fmt])
        /\ \A k \in 1..(Len(w) \div charsPerByte) :
               pyInt(SubSeq(w, (k - 1) * charsPerByte + 1, k * charsPerByte),
                     numberBases[fmt]) <= 255

\* C34: a search string of the data format is searched for only if it is
\* well formed; for any other string no search is run and the cursor stays
\* where it is.
C34_BadTermRefused ==
    [][\A searchStr \in DataSearchTerms, direction \in SearchDirections :
          KeySearchData(searchStr, direction)
              => WellFormedTerm(dataFormat, searchStr)]_vars

\* C35: when the search dialog finds a match, the cursor ends at the offset
\* of the match and that offset is on the screen, whether the dialog was
\* opened with ^F or from the Search menu.
C35_FoundMatchBecomesCursor ==
    [][\A bytesStr \in SearchPatterns, direction \in SearchDirections :
          (KeySearchFound(bytesStr, direction) \/ MenuSearchFound(bytesStr, direction))
              => /\ cursorPos' = searchIndex(data_bytes, cursorPos, bytesStr, direction)
                 /\ (status' = "running" =>
                        CursorOnScreen(cursorPos', firstDisplayLine', params'))]_vars

ByteValues == 0..255

\* C36: in every radix and for every byte value v, the displayed string of
\* v has charsPerByte characters, all of them digits of the radix, and
\* typing them one after the other into an empty accumulator commits v:
\* each character but the last one extends the accumulator, the last one
\* writes v at the cursor and empties it.
C36_DisplayEntryRoundTrip ==
    /\ [](\A v \in ByteValues :
            LET str == formatByte(dataFormat, v)
            IN  /\ Len(str) = byteDisplayFormatMap[dataFormat][3]
                /\ \A i \in 1..Len(str) : str[i] \in validInputChars[dataFormat])
    /\ [][\A v \in ByteValues :
            LET str == formatByte(dataFormat, v)
                k   == Len(editChars)
            IN  (/\ k < Len(str)
                 /\ editChars = SubSeq(str, 1, k)
                 /\ KeyData(str[k + 1]))
                    => IF k + 1 < Len(str)
                       THEN editChars' = SubSeq(str, 1, k + 1) /\ data_bytes' = data_bytes
                       ELSE /\ data_bytes' = replaceByte(data_bytes, cursorPos, v)
                            /\ editChars' = <<>>
                            /\ modified']_vars

\* The byte 255 has been committed in octal, by typing 3, 7, 7.
C36_Witness ==
    /\ status = "running"
    /\ dataFormat = "octal"
    /\ data_bytes = <<255>>
    /\ edits = 1
    /\ editChars = <<>>

\* C37: whenever the buffer differs from what was last loaded or saved, the
\* modified flag is set, so that ^W, which acts only when the flag is set,
\* is available for every unsaved change.
C37_UnsavedChangeIsFlagged ==
    (status = "running" /\ data_bytes # fileBytes) => modified

\* A buffer edited through an auxiliary field after it had been edited and
\* saved: it differs from the saved file again.
C37_Witness ==
    /\ status = "running"
    /\ edits = 2
    /\ fileBytes \notin SavedBuffers
    /\ data_bytes # fileBytes
    /\ modified

\* The cursor is on the screen and the dataRowCount rows below the viewport
\* lie wholly within the buffer.
FullPageBelow ==
    /\ status = "running"
    /\ CursorOnScreen(cursorPos, firstDisplayLine, params)
    /\ N >= (firstDisplayLine + 2 * params.dataRowCount) * params.rowByteCount

\* The cursor is on the screen and a page above it exists: where Page Down
\* from a state of FullPageBelow arrives.
FullPageAbove ==
    /\ status = "running"
    /\ CursorOnScreen(cursorPos, firstDisplayLine, params)
    /\ firstDisplayLine >= params.dataRowCount
    /\ N >= (firstDisplayLine + params.dataRowCount) * params.rowByteCount

\* C38: from a cursor on the screen with a full page below the viewport,
\* Page Down moves the cursor by rowByteCount * dataRowCount bytes and the
\* viewport by dataRowCount rows, to a state from which Page Up moves both
\* back by as much: Page Down followed by Page Up restores cursorPos and
\* firstDisplayLine.
C38_PageDownThenPageUp ==
    [][/\ (FullPageBelow /\ KeyNPage)
           => /\ cursorPos' = cursorPos + params.rowByteCount * params.dataRowCount
              /\ firstDisplayLine' = firstDisplayLine + params.dataRowCount
              /\ FullPageAbove'
       /\ (FullPageAbove /\ KeyPPage)
           => /\ cursorPos' = cursorPos - params.rowByteCount * params.dataRowCount
              /\ firstDisplayLine' = firstDisplayLine - params.dataRowCount
              /\ params' = params]_vars

\* Binary, two data rows: the viewport is at rows 2-3 with the cursor at
\* byte 13 on row 3, where Page Down arrives from rows 0-1 with the cursor
\* at byte 5, and from where Page Up goes back.
C38_Witness ==
    /\ status = "running"
    /\ dataFormat = "binary"
    /\ params.dataRowCount = 2
    /\ firstDisplayLine = 2
    /\ cursorPos = 13
    /\ FullPageAbove

====
